---- MODULE Spec2Model ----
(***************************************************************************)
(* hoomd.mpcd.integrate.integrator: the MPCD integrator wrapper.  The      *)
(* Python object ("self") configures a native integrator ("cpp_integrator")*)
(* and keeps a streaming method, a collision method and the list of        *)
(* integration methods of the simulation context in step with it.          *)
(***************************************************************************)
EXTENDS Integers, Sequences, FiniteSets, TLC

\* ------------------------------------------------------------------ bounds
MaxMethods == 2      \* longest hoomd.context.current.integration_methods list
MaxConstructs == 2   \* how many native integrators are ever created

\* ------------------------------------------------------------ value domains
None == "None"                          \* Python None, for references and aniso
NoDt == <<>>                            \* Python None, for an optional number
Dt(v) == <<v>>                          \* a number given as an optional number
Methods == {"m1", "m2"}                 \* cpp_method handles

RECURSIVE SeqsUpTo(_, _)
SeqsUpTo(S, n) ==
    IF n = 0 THEN {<<>>}
    ELSE LET shorter == SeqsUpTo(S, n - 1)
         IN shorter \cup {Append(q, x) : q \in shorter, x \in S}

MethodLists == SeqsUpTo(Methods, MaxMethods)

\* -------------------------------------------------------------------- state
VARIABLES
    mpcd,                 \* hoomd.context.current.mpcd: None, or the kind of system
    sysIntegrator,        \* id of the integrator set in hoomd.context.current.system (0: none)
    nextId,               \* id the next native integrator gets
    self,                 \* the controller the caller holds
    cpp_integrator,       \* the native integrator self.cpp_integrator refers to
    lastOp,               \* the operation that produced this state, with its arguments
    result,               \* how it ended: "ok" or the error raised
    calls,                \* the native calls it made, in order
    warnings,             \* the warnings it emitted, in order
    collideHist,          \* the last two values given to the collision slot
    reconcileStreak       \* successful update_methods calls in a row (capped at 2)

vars == <<mpcd, sysIntegrator, nextId, self, cpp_integrator,
          lastOp, result, calls, warnings, collideHist, reconcileStreak>>

\* ------------------------------------------------------ the native integrator
\* _mpcd.Integrator(sysdata, dt): a fresh integrator
NewIntegrator(id, dt) ==
    [id |-> id, deltaT |-> dt, anisoMode |-> "Automatic", comm |-> FALSE,
     methods |-> <<>>, stream |-> None, collide |-> None]

NoIntegrator == NewIntegrator(0, NoDt)

setMPCDCommunicator(e) == [e EXCEPT !.comm = TRUE]
setDeltaT(e, dt) == [e EXCEPT !.deltaT = dt]
setAnisotropicMode(e, mode) == [e EXCEPT !.anisoMode = mode]
removeAllIntegrationMethods(e) == [e EXCEPT !.methods = <<>>]
addIntegrationMethod(e, m) == [e EXCEPT !.methods = Append(@, m)]
setStreamingMethod(e, s) == [e EXCEPT !.stream = s]
removeStreamingMethod(e) == [e EXCEPT !.stream = None]
setCollisionMethod(e, c) == [e EXCEPT !.collide = c]
removeCollisionMethod(e) == [e EXCEPT !.collide = None]

\* ---------------------------------------------------------- the controller
NoController ==
    [state |-> "Uninitialized", dt |-> NoDt, aniso |-> None, period |-> 0,
     stream |-> None, collide |-> None]

\* hoomd.integrate._integrator.check_initialization: TRUE when the call passes
check_initialization(s) == s.state = "Active"

\* integrator._aniso_modes
aniso_modes ==
    [k \in {None, "True", "False"} |->
        CASE k = None -> "Automatic"
          [] k = "True" -> "Anisotropic"
          [] k = "False" -> "Isotropic"]

\* A frame: the state an operation works on (the controller, its native
\* integrator, the system's integrator slot, the id counter) and what the
\* running operation has done so far.
Frame(s, e, sys, n) ==
    [self |-> s, eng |-> e, sys |-> sys, nextId |-> n,
     result |-> "ok", calls |-> <<>>, warnings |-> <<>>]

Raised(f) == f.result # "ok"
Raise(f, err) == [f EXCEPT !.result = err]
Call(f, fn, arg) == [f EXCEPT !.calls = Append(@, <<fn, arg>>)]
Warn(f, w) == [f EXCEPT !.warnings = Append(@, w)]

\* set_dt recording the time step and leaving the native integrator for later
set_dt_no_push(f, dt) ==
    IF dt # NoDt
    THEN [f EXCEPT !.self.dt = dt]
    ELSE f

\* set_dt replacing the native integrator by a new one made with the time step
set_dt_recreate(f, dt) ==
    IF dt # NoDt
    THEN Call([f EXCEPT !.self.dt = dt, !.eng = NewIntegrator(@.id, dt)], "setDeltaT", dt)
    ELSE f

\* set_params, "if dt is not None:" block
set_dt(f, dt) ==
    IF dt # NoDt
    THEN Call([f EXCEPT !.self.dt = dt, !.eng = setDeltaT(@, dt)], "setDeltaT", dt)
    ELSE f

\* set_aniso recording the value before it is validated
set_aniso_record_first(f, aniso) ==
    IF aniso # None
    THEN IF aniso \in DOMAIN aniso_modes
         THEN LET anisoMode == aniso_modes[aniso]
              IN Call([f EXCEPT !.self.aniso = aniso,
                                !.eng = setAnisotropicMode(@, anisoMode)],
                      "setAnisotropicMode", anisoMode)
         ELSE Raise([f EXCEPT !.self.aniso = aniso], "InvalidArgument")
    ELSE f

\* set_aniso recording the mode and leaving the native integrator for later
set_aniso_no_push(f, aniso) ==
    IF aniso # None
    THEN IF aniso \in DOMAIN aniso_modes
         THEN [f EXCEPT !.self.aniso = aniso]
         ELSE Raise(f, "InvalidArgument")
    ELSE f

\* set_aniso looking None up in _aniso_modes like any other value
set_aniso_none_selects(f, aniso) ==
    IF aniso \in DOMAIN aniso_modes
    THEN LET anisoMode == aniso_modes[aniso]
         IN Call([f EXCEPT !.self.aniso = aniso,
                           !.eng = setAnisotropicMode(@, anisoMode)],
                 "setAnisotropicMode", anisoMode)
    ELSE Raise(f, "InvalidArgument")

\* set_params, "if aniso is not None:" block
set_aniso(f, aniso) ==
    IF aniso # None
    THEN IF aniso \in DOMAIN aniso_modes
         THEN LET anisoMode == aniso_modes[aniso]
              IN Call([f EXCEPT !.self.aniso = aniso,
                                !.eng = setAnisotropicMode(@, anisoMode)],
                      "setAnisotropicMode", anisoMode)
         ELSE Raise(f, "InvalidArgument")
    ELSE f

\* set_params without its check_initialization call
set_params_unchecked(f, dt, aniso) ==
    LET f1 == set_dt(f, dt)
    IN set_aniso(f1, aniso)

\* integrator.set_params(dt, aniso)
set_params(f, dt, aniso) ==
    IF ~check_initialization(f.self)
    THEN Raise(f, "NotInitializedError")
    ELSE LET f1 == set_dt(f, dt)
         IN set_aniso(f1, aniso)

\* update_methods, "for m in hoomd.context.current.integration_methods:" loop
RECURSIVE add_methods(_, _)
add_methods(f, L) ==
    IF L = <<>> THEN f
    ELSE add_methods(Call([f EXCEPT !.eng = addIntegrationMethod(@, Head(L))],
                          "addIntegrationMethod", Head(L)),
                     Tail(L))

Reverse(L) == [i \in 1..Len(L) |-> L[Len(L) + 1 - i]]

\* rebuild_methods adding the methods last to first
rebuild_reversed(f, L) ==
    add_methods(Call([f EXCEPT !.eng = removeAllIntegrationMethods(@)],
                     "removeAllIntegrationMethods", None),
                Reverse(L))

\* rebuild_methods without removeAllIntegrationMethods
rebuild_no_clear(f, L) == add_methods(f, L)

\* update_methods, rebuilding the native method list
rebuild_methods(f, L) ==
    add_methods(Call([f EXCEPT !.eng = removeAllIntegrationMethods(@)],
                     "removeAllIntegrationMethods", None),
                L)

\* push_stream that warns about an empty slot and leaves the native method
push_stream_warn_only(f) ==
    IF f.self.stream # None
    THEN Call([f EXCEPT !.eng = setStreamingMethod(@, f.self.stream)],
              "setStreamingMethod", f.self.stream)
    ELSE Warn(f, "MissingStreamingWarning")

\* update_methods, the streaming method
push_stream(f) ==
    IF f.self.stream # None
    THEN Call([f EXCEPT !.eng = setStreamingMethod(@, f.self.stream)],
              "setStreamingMethod", f.self.stream)
    ELSE Call(Warn([f EXCEPT !.eng = removeStreamingMethod(@)],
                   "MissingStreamingWarning"),
              "removeStreamingMethod", None)

\* push_collide that sets the method only while the native integrator has none
push_collide_keep_first(f) ==
    IF f.self.collide # None
    THEN IF f.eng.collide = None
         THEN Call([f EXCEPT !.eng = setCollisionMethod(@, f.self.collide)],
                   "setCollisionMethod", f.self.collide)
         ELSE f
    ELSE Call(Warn([f EXCEPT !.eng = removeCollisionMethod(@)],
                   "MissingCollisionWarning"),
              "removeCollisionMethod", None)

\* update_methods, the collision method
push_collide(f) ==
    IF f.self.collide # None
    THEN Call([f EXCEPT !.eng = setCollisionMethod(@, f.self.collide)],
              "setCollisionMethod", f.self.collide)
    ELSE Call(Warn([f EXCEPT !.eng = removeCollisionMethod(@)],
                   "MissingCollisionWarning"),
              "removeCollisionMethod", None)

\* integrator.update_methods(), reading the context's list L
update_methods(f, L) ==
    IF ~check_initialization(f.self)
    THEN Raise(f, "NotInitializedError")
    ELSE push_collide(push_stream(rebuild_methods(f, L)))

\* init_fields taking the period for the time step
init_fields_dt_from_period(dt, period, aniso) ==
    [state |-> "Uninitialized", dt |-> Dt(period), aniso |-> aniso, period |-> period,
     stream |-> None, collide |-> None]

\* __init__, the attributes set before the native integrator exists
init_fields(dt, period, aniso) ==
    [state |-> "Uninitialized", dt |-> dt, aniso |-> aniso, period |-> period,
     stream |-> None, collide |-> None]

\* configure_cpp without the setIntegrator call
configure_cpp_no_register(f, m) ==
    LET e0 == NewIntegrator(f.nextId, f.self.dt)
        f1 == Call([f EXCEPT !.self.state = "Active", !.eng = e0, !.nextId = @ + 1],
                   "Integrator", f.self.dt)
    IN IF m = "mpi"
       THEN Call([f1 EXCEPT !.eng = setMPCDCommunicator(@)], "setMPCDCommunicator", None)
       ELSE f1

\* __init__, "configure C++ integrator": self.cpp_integrator is set (from
\* here on check_initialization passes), the communicator is passed on when
\* the system has one, and the integrator is set in the system
configure_cpp(f, m) ==
    LET e0 == NewIntegrator(f.nextId, f.self.dt)
        f1 == Call([f EXCEPT !.self.state = "Active", !.eng = e0, !.nextId = @ + 1],
                   "Integrator", f.self.dt)
        f2 == IF m = "mpi"
              THEN Call([f1 EXCEPT !.eng = setMPCDCommunicator(@)],
                        "setMPCDCommunicator", None)
              ELSE f1
    IN Call([f2 EXCEPT !.sys = f2.eng.id], "setIntegrator", None)

\* __init__, "create the base streaming class"
stream_class(gpu) == IF ~gpu THEN "StreamingMethod" ELSE "StreamingMethodGPU"

\* init_strategies that also sets the default streaming method natively
init_strategies_push(f, gpu) ==
    Call([f EXCEPT !.self.stream = stream_class(gpu), !.self.collide = None,
                   !.eng = setStreamingMethod(@, stream_class(gpu))],
         "setStreamingMethod", stream_class(gpu))

\* __init__, from the streaming method on
init_strategies(f, gpu) ==
    [f EXCEPT !.self.stream = stream_class(gpu), !.self.collide = None]

\* __init__ without the check that an MPCD system is initialized
integrator_init_unchecked(f, m, dt, period, aniso, gpu) ==
    LET f1 == configure_cpp([f EXCEPT !.self = init_fields(dt, period, aniso)], m)
        f2 == IF aniso # None THEN set_params(f1, NoDt, aniso) ELSE f1
    IN IF Raised(f2) THEN f2 ELSE init_strategies(f2, gpu)

\* integrator.__init__(dt, period, aniso), with the context's mpcd m and
\* whether CUDA is enabled
integrator_init(f, m, dt, period, aniso, gpu) ==
    IF m = None
    THEN Raise(f, "NotInitializedError")
    ELSE LET f1 == configure_cpp([f EXCEPT !.self = init_fields(dt, period, aniso)], m)
             f2 == IF aniso # None THEN set_params(f1, NoDt, aniso) ELSE f1
         IN IF Raised(f2) THEN f2 ELSE init_strategies(f2, gpu)

\* a streaming command sets (ref a method) or clears (ref None) the slot
attach_stream(f, ref) ==
    IF ~check_initialization(f.self)
    THEN Raise(f, "NotInitializedError")
    ELSE [f EXCEPT !.self.stream = ref]

\* a collision command sets (ref a method) or clears (ref None) the slot
attach_collide(f, ref) ==
    IF ~check_initialization(f.self)
    THEN Raise(f, "NotInitializedError")
    ELSE [f EXCEPT !.self.collide = ref]

\* ------------------------------------------------------------------ actions
Op(name, dt, aniso, period, ref, L) ==
    [name |-> name, dt |-> dt, aniso |-> aniso, period |-> period, ref |-> ref,
     methods |-> L]

Now == Frame(self, cpp_integrator, sysIntegrator, nextId)

\* what every operation on the controller leaves for the next one
Finish(f, op) ==
    /\ self' = f.self
    /\ cpp_integrator' = f.eng
    /\ sysIntegrator' = f.sys
    /\ nextId' = f.nextId
    /\ result' = f.result
    /\ calls' = f.calls
    /\ warnings' = f.warnings
    /\ lastOp' = op

Init ==
    /\ mpcd = None
    /\ sysIntegrator = 0
    /\ nextId = 1
    /\ self = NoController
    /\ cpp_integrator = NoIntegrator
    /\ lastOp = Op("start", NoDt, None, 0, None, <<>>)
    /\ result = "ok"
    /\ calls = <<>>
    /\ warnings = <<>>
    /\ collideHist = <<None, None>>
    /\ reconcileStreak = 0

\* an MPCD system is initialized in the context
InitMPCD(kind) ==
    /\ mpcd = None
    /\ mpcd' = kind
    /\ lastOp' = Op("init_mpcd", NoDt, None, 0, kind, <<>>)
    /\ result' = "ok" /\ calls' = <<>> /\ warnings' = <<>>
    /\ reconcileStreak' = 0
    /\ UNCHANGED <<sysIntegrator, nextId, self, cpp_integrator, collideHist>>

\* integrator(dt, period, aniso): on an exception the caller is left with
\* the controller it had
Construct(dt, period, aniso, gpu) ==
    /\ nextId <= MaxConstructs
    /\ LET f == integrator_init(Now, mpcd, Dt(dt), period, aniso, gpu)
           g == IF Raised(f) THEN [f EXCEPT !.self = self, !.eng = cpp_integrator] ELSE f
       IN /\ Finish(g, Op("construct", Dt(dt), aniso, period, None, <<>>))
          /\ collideHist' = IF Raised(f) THEN collideHist ELSE <<None, None>>
    /\ reconcileStreak' = 0
    /\ UNCHANGED mpcd

SetParams(dt, aniso) ==
    /\ Finish(set_params(Now, dt, aniso), Op("set_params", dt, aniso, 0, None, <<>>))
    /\ reconcileStreak' = 0
    /\ UNCHANGED <<mpcd, collideHist>>

\* update_methods() when hoomd.context.current.integration_methods is L
UpdateMethods(L) ==
    /\ LET f == update_methods(Now, L)
       IN /\ Finish(f, Op("update_methods", NoDt, None, 0, None, L))
          /\ reconcileStreak' =
                IF Raised(f) THEN 0
                ELSE IF lastOp.name = "update_methods" /\ lastOp.methods = L /\ result = "ok"
                     THEN 2
                     ELSE 1
    /\ UNCHANGED <<mpcd, collideHist>>

AttachStreaming(ref) ==
    /\ Finish(attach_stream(Now, ref), Op("attach_stream", NoDt, None, 0, ref, <<>>))
    /\ reconcileStreak' = 0
    /\ UNCHANGED <<mpcd, collideHist>>

AttachCollision(ref) ==
    /\ LET f == attach_collide(Now, ref)
       IN /\ Finish(f, Op("attach_collide", NoDt, None, 0, ref, <<>>))
          /\ collideHist' = IF Raised(f) THEN collideHist ELSE <<collideHist[2], ref>>
    /\ reconcileStreak' = 0
    /\ UNCHANGED mpcd

\* the owning simulation context is torn down
Teardown ==
    /\ self.state = "Active"
    /\ self' = [self EXCEPT !.state = "TornDown"]
    /\ lastOp' = Op("teardown", NoDt, None, 0, None, <<>>)
    /\ result' = "ok" /\ calls' = <<>> /\ warnings' = <<>>
    /\ reconcileStreak' = 0
    /\ UNCHANGED <<mpcd, sysIntegrator, nextId, cpp_integrator, collideHist>>

\* ------------------------------------------------------------- inputs
\* The values callers pass.  Two specifications share every action and
\* differ in the inputs they draw: SpecParams draws every kind of argument
\* of the constructor and of set_params, SpecReconcile every kind of method
\* list and of strategy attached to the slots.
Opt(S) == {NoDt} \cup {Dt(v) : v \in S}

ParamsInputs ==
    [kinds |-> {"serial", "mpi"},
     dts |-> {0, 1, 2}, periods |-> {0, 1}, anisos |-> {None, "True", "False", "bogus"},
     gpus |-> {FALSE},
     setDts |-> Opt({1, 2}), setAnisos |-> {None, "True", "False", "bogus"},
     lists |-> SeqsUpTo({"m1"}, 1),
     streams |-> {None},
     collides |-> {"c1"}]

ReconcileInputs ==
    [kinds |-> {"serial"},
     dts |-> {1}, periods |-> {1}, anisos |-> {None},
     gpus |-> BOOLEAN,
     setDts |-> Opt({2}), setAnisos |-> {None},
     lists |-> SeqsUpTo(Methods, MaxMethods),
     streams |-> {None, "s1"},
     collides |-> {None, "c1", "c2"}]

Step(I) ==
    \/ \E kind \in I.kinds : InitMPCD(kind)
    \/ \E dt \in I.dts, period \in I.periods, aniso \in I.anisos, gpu \in I.gpus :
          Construct(dt, period, aniso, gpu)
    \/ \E dt \in I.setDts, aniso \in I.setAnisos : SetParams(dt, aniso)
    \/ \E L \in I.lists : UpdateMethods(L)
    \/ \E ref \in I.streams : AttachStreaming(ref)
    \/ \E ref \in I.collides : AttachCollision(ref)
    \/ Teardown

NextParams == Step(ParamsInputs)
NextReconcile == Step(ReconcileInputs)

SpecParams == Init /\ [][NextParams]_vars
SpecReconcile == Init /\ [][NextReconcile]_vars

TypeOK ==
    /\ mpcd \in {None, "serial", "mpi"}
    /\ sysIntegrator \in 0..MaxConstructs
    /\ nextId \in 1..(MaxConstructs + 1)
    /\ self.state \in {"Uninitialized", "Active", "TornDown"}
    /\ cpp_integrator.id \in 0..MaxConstructs
    /\ Len(cpp_integrator.methods) <= MaxMethods
    /\ result \in {"ok", "NotInitializedError", "InvalidArgument"}
    /\ reconcileStreak \in 0..2

\* ------------------------------------------------------------------ claims
IsOp(op, name) == op.name = name
Reconciled == IsOp(lastOp, "update_methods") /\ result = "ok"
Pushed(fn) == {calls[i][2] : i \in {j \in DOMAIN calls : calls[j][1] = fn}}
NumCalls(fn) == Cardinality({j \in DOMAIN calls : calls[j][1] = fn})
Recognized(aniso) == aniso \in DOMAIN aniso_modes

\* C1: after update_methods succeeds with the context's list L, whatever the
\* native method list was before, the native method list is L: the same
\* methods in the same order, nothing left over, nothing added twice.
C1_ReconcileInstallsExactList ==
    Reconciled => cpp_integrator.methods = lastOp.methods

C1_Witness ==
    /\ Reconciled
    /\ lastOp.methods = <<"m2", "m1">>
    /\ cpp_integrator.methods = <<"m2", "m1">>
    /\ reconcileStreak = 1

\* C2: update_methods called a second time straight after a successful call,
\* with the same list and the same slots, leaves the native integrator
\* (method list, streaming method, collision method) as the first call did.
C2_ReconcileIdempotent ==
    [][(/\ Reconciled
        /\ IsOp(lastOp', "update_methods")
        /\ lastOp'.methods = lastOp.methods)
       => cpp_integrator' = cpp_integrator]_vars

C2_Witness ==
    /\ Reconciled
    /\ reconcileStreak = 2
    /\ Len(cpp_integrator.methods) = 2
    /\ cpp_integrator.collide # None
    /\ cpp_integrator.stream # None

\* C3: update_methods sets on the native integrator only the method attached
\* last to each slot, and sets it once: after c1 and then c2 were attached to
\* the collision slot, the native collision method is c2 and c1 is not set.
C3_OnlyLatestStrategyPushed ==
    Reconciled =>
        /\ Pushed("setCollisionMethod") \subseteq {collideHist[2]} \ {None}
        /\ Pushed("setStreamingMethod") \subseteq {self.stream} \ {None}
        /\ NumCalls("setCollisionMethod") <= 1
        /\ NumCalls("setStreamingMethod") <= 1
        /\ (collideHist = <<"c1", "c2">> =>
               /\ cpp_integrator.collide = "c2"
               /\ Pushed("setCollisionMethod") = {"c2"})

C3_Witness ==
    /\ Reconciled
    /\ collideHist = <<"c1", "c2">>
    /\ cpp_integrator.collide = "c2"
    /\ calls[Len(calls)] = <<"setCollisionMethod", "c2">>

\* C4: update_methods on an active controller does not fail over a missing
\* method.  For each slot on its own: an occupied slot is set on the native
\* integrator without a warning; an empty slot gives its warning and the
\* native integrator's method is removed.  With both slots empty and an empty
\* list both warnings are given and the native method list is empty.
HasWarning(w) == \E i \in DOMAIN warnings : warnings[i] = w

C4_ReconcileWarnsNeverFails ==
    (IsOp(lastOp, "update_methods") /\ self.state = "Active") =>
        /\ result = "ok"
        /\ IF self.stream # None
           THEN /\ cpp_integrator.stream = self.stream
                /\ ~HasWarning("MissingStreamingWarning")
                /\ NumCalls("removeStreamingMethod") = 0
           ELSE /\ cpp_integrator.stream = None
                /\ HasWarning("MissingStreamingWarning")
                /\ NumCalls("removeStreamingMethod") = 1
        /\ IF self.collide # None
           THEN /\ cpp_integrator.collide = self.collide
                /\ ~HasWarning("MissingCollisionWarning")
                /\ NumCalls("removeCollisionMethod") = 0
           ELSE /\ cpp_integrator.collide = None
                /\ HasWarning("MissingCollisionWarning")
                /\ NumCalls("removeCollisionMethod") = 1
        /\ (self.stream = None /\ self.collide = None /\ lastOp.methods = <<>> =>
               /\ warnings = <<"MissingStreamingWarning", "MissingCollisionWarning">>
               /\ cpp_integrator.methods = <<>>)

C4_Witness ==
    /\ IsOp(lastOp, "update_methods") /\ self.state = "Active"
    /\ self.stream = None /\ self.collide = None /\ lastOp.methods = <<>>
    /\ warnings = <<"MissingStreamingWarning", "MissingCollisionWarning">>

\* a second case of C4: streaming missing, collision present
C4_WitnessMixed ==
    /\ IsOp(lastOp, "update_methods") /\ self.state = "Active"
    /\ self.stream = None /\ self.collide = "c1"
    /\ warnings = <<"MissingStreamingWarning">>

\* C5: set_params, attaching to a slot and update_methods, called on a
\* controller that is not active (never constructed, or torn down), fail with
\* NotInitializedError, make no native call and change nothing.
MutatingOps == {"set_params", "attach_stream", "attach_collide", "update_methods"}

C5_InactiveControllerRejects ==
    [][(self.state # "Active" /\ lastOp'.name \in MutatingOps) =>
          /\ result' = "NotInitializedError"
          /\ calls' = <<>>
          /\ cpp_integrator' = cpp_integrator
          /\ sysIntegrator' = sysIntegrator
          /\ self' = self]_vars

C5_Witness ==
    /\ self.state = "TornDown"
    /\ IsOp(lastOp, "set_params") /\ lastOp.dt = Dt(2) /\ lastOp.aniso = "True"
    /\ result = "NotInitializedError"
    /\ cpp_integrator.id # 0

C5_WitnessBeforeConstruct ==
    /\ self.state = "Uninitialized"
    /\ IsOp(lastOp, "update_methods")
    /\ result = "NotInitializedError"

\* C6: the constructor called while no MPCD system is initialized fails with
\* NotInitializedError before a native integrator is created, and the
\* system's integrator is the one it was.
C6_ConstructNeedsContext ==
    [][(IsOp(lastOp', "construct") /\ mpcd = None) =>
          /\ result' = "NotInitializedError"
          /\ calls' = <<>>
          /\ nextId' = nextId
          /\ sysIntegrator' = sysIntegrator
          /\ cpp_integrator' = cpp_integrator
          /\ self' = self]_vars

C6_Witness ==
    /\ IsOp(lastOp, "construct") /\ mpcd = None
    /\ result = "NotInitializedError"
    /\ lastOp.dt = Dt(1) /\ lastOp.period = 1

\* C7: the constructor called with a time step <= 0 or a period < 1 (an MPCD
\* system being initialized) fails with InvalidArgument and sets no
\* integrator in the system.
BadConstructArgs(op) == op.dt[1] <= 0 \/ op.period < 1

C7_ConstructRejectsBadArgs ==
    [][(IsOp(lastOp', "construct") /\ mpcd # None /\ BadConstructArgs(lastOp')) =>
          /\ result' = "InvalidArgument"
          /\ sysIntegrator' = sysIntegrator]_vars

\* C8 as stated: for every time step > 0 and period >= 1, an MPCD system
\* being initialized, the constructor succeeds, and then the time step of the
\* controller and of the native integrator is the one given, the native
\* integrator is the system's integrator, the streaming slot holds a default
\* streaming method and the collision slot is empty.
GoodConstruct ==
    /\ IsOp(lastOp, "construct") /\ mpcd # None
    /\ lastOp.dt[1] > 0 /\ lastOp.period >= 1

ConstructedAsAsked ==
    /\ result = "ok"
    /\ self.state = "Active"
    /\ self.dt = lastOp.dt
    /\ cpp_integrator.deltaT = lastOp.dt
    /\ cpp_integrator.id = nextId - 1
    /\ sysIntegrator = cpp_integrator.id
    /\ self.stream \in {"StreamingMethod", "StreamingMethodGPU"}
    /\ self.collide = None

C8_ConstructAlwaysSucceeds == GoodConstruct => ConstructedAsAsked

\* C8 amended: the same, when the aniso argument is omitted or is one of the
\* values _aniso_modes knows.
C8_ConstructSucceedsGivenKnownAniso ==
    (GoodConstruct /\ Recognized(lastOp.aniso)) => ConstructedAsAsked

C8_Witness ==
    /\ GoodConstruct /\ lastOp.aniso = "True" /\ lastOp.dt = Dt(2)
    /\ ConstructedAsAsked
    /\ cpp_integrator.id = 2

\* C9: set_params on an active controller with an aniso value _aniso_modes
\* does not know fails with InvalidArgument, and the mode the controller
\* records and the mode of the native integrator are the ones from before.
C9_UnknownAnisoRejected ==
    [][(IsOp(lastOp', "set_params") /\ self.state = "Active"
        /\ ~Recognized(lastOp'.aniso)) =>
          /\ result' = "InvalidArgument"
          /\ self'.aniso = self.aniso
          /\ cpp_integrator'.anisoMode = cpp_integrator.anisoMode]_vars

C9_Witness ==
    /\ IsOp(lastOp, "set_params") /\ self.state = "Active"
    /\ lastOp.aniso = "bogus" /\ lastOp.dt = NoDt
    /\ result = "InvalidArgument"
    /\ self.aniso = "False" /\ cpp_integrator.anisoMode = "Isotropic"

\* C10: set_params called with a new time step and an aniso value
\* _aniso_modes does not know fails with InvalidArgument before any native
\* call, so the time step of the controller and of the native integrator are
\* the ones from before.
C10_ValidateBeforeMutate ==
    [][(IsOp(lastOp', "set_params") /\ self.state = "Active"
        /\ lastOp'.dt # NoDt /\ ~Recognized(lastOp'.aniso)) =>
          /\ result' = "InvalidArgument"
          /\ calls' = <<>>
          /\ self'.dt = self.dt
          /\ cpp_integrator'.deltaT = cpp_integrator.deltaT]_vars

\* C11: a successful set_params changes the fields it is given and nothing
\* else, and the native integrator has them when the call returns: a given
\* dt is the time step of controller and native integrator, a given aniso
\* their mode; a field not given (None) keeps its value; the period, both
\* slots, the native method list and strategies, and the system's integrator
\* stay as they were.
SetParamsOk(op, res) == IsOp(op, "set_params") /\ res = "ok"

C12_FailureChangesNothing ==
    [][result' # "ok" =>
          /\ self' = self
          /\ cpp_integrator' = cpp_integrator
          /\ sysIntegrator' = sysIntegrator]_vars

\* C13: the system has one integrator at a time: after a constructor call
\* that succeeds it is the native integrator of the controller just made (a
\* new one, not the one set before), and no operation on a controller
\* replaces it.
C13_NewestIntegratorIsActive ==
    [][/\ (IsOp(lastOp', "construct") /\ result' = "ok" =>
              /\ cpp_integrator'.id = nextId
              /\ sysIntegrator' = cpp_integrator'.id
              /\ sysIntegrator' # sysIntegrator)
       /\ (~IsOp(lastOp', "construct") => sysIntegrator' = sysIntegrator)]_vars

C13_Witness ==
    /\ IsOp(lastOp, "construct") /\ result = "ok"
    /\ cpp_integrator.id = 2 /\ sysIntegrator = 2 /\ nextId = 3
    /\ lastOp.aniso = None

\* C14 as stated: of the constructor, set_params, attaching to a slot and
\* update_methods, only update_methods changes anything the native side
\* holds.
ControllerOps == {"construct", "set_params", "attach_stream", "attach_collide"}

\* (Making the native integrator and setting it in the system are not counted
\* as changes of what it holds; every call on it afterwards is.)
C14_OnlyReconcileTouchesEngine ==
    [][lastOp'.name \in ControllerOps =>
          IF IsOp(lastOp', "construct")
          THEN \A i \in DOMAIN calls' : calls'[i][1] \in {"Integrator", "setIntegrator"}
          ELSE cpp_integrator' = cpp_integrator /\ calls' = <<>>]_vars

\* C14 amended: update_methods is the only one of them that changes the
\* native method list, streaming method or collision method, and it changes
\* nothing else; set_params changes the native time step and mode and
\* nothing else; attaching to a slot changes nothing native; the constructor
\* makes a new native integrator and sets it in the system.
C14_EachOperationsNativeFootprint ==
    [][/\ (IsOp(lastOp', "set_params") =>
              /\ cpp_integrator'.methods = cpp_integrator.methods
              /\ cpp_integrator'.stream = cpp_integrator.stream
              /\ cpp_integrator'.collide = cpp_integrator.collide
              /\ cpp_integrator'.id = cpp_integrator.id
              /\ cpp_integrator'.comm = cpp_integrator.comm
              /\ sysIntegrator' = sysIntegrator
              /\ \A i \in DOMAIN calls' :
                    calls'[i][1] \in {"setDeltaT", "setAnisotropicMode"})
       /\ (lastOp'.name \in {"attach_stream", "attach_collide"} =>
              /\ cpp_integrator' = cpp_integrator
              /\ sysIntegrator' = sysIntegrator
              /\ calls' = <<>>)
       /\ (IsOp(lastOp', "update_methods") =>
              /\ cpp_integrator'.deltaT = cpp_integrator.deltaT
              /\ cpp_integrator'.anisoMode = cpp_integrator.anisoMode
              /\ cpp_integrator'.id = cpp_integrator.id
              /\ cpp_integrator'.comm = cpp_integrator.comm
              /\ sysIntegrator' = sysIntegrator)
       /\ (IsOp(lastOp', "construct") /\ mpcd # None =>
              /\ sysIntegrator' = nextId
              /\ calls'[1][1] = "Integrator"
              /\ calls'[Len(calls')][1] \in {"setIntegrator", "setAnisotropicMode"})]_vars

C14_Witness ==
    /\ self.state = "Active" /\ SetParamsOk(lastOp, result)
    /\ lastOp.dt = Dt(1) /\ lastOp.aniso = "False"
    /\ calls = << <<"setDeltaT", Dt(1)>>, <<"setAnisotropicMode", "Isotropic">> >>
    /\ cpp_integrator.deltaT = Dt(1) /\ cpp_integrator.anisoMode = "Isotropic"
    /\ cpp_integrator.methods = <<"m1">>
    /\ cpp_integrator.stream = "StreamingMethod"

\* C15: the native method list, streaming method and collision method change
\* only in update_methods.  Attaching to a slot changes the controller's slot
\* alone, and so does the constructor's default streaming method: the new
\* native integrator holds no method and no strategy.  Until the next
\* update_methods the native integrator may thus hold no strategy or a
\* superseded one; straight after every update_methods its streaming and
\* collision methods are the controller's slots.
NativeStrategies(e) == <<e.methods, e.stream, e.collide>>

C15_StrategiesReachEngineOnlyInReconcile ==
    [][/\ (lastOp'.name \notin {"update_methods", "construct"} =>
              NativeStrategies(cpp_integrator') = NativeStrategies(cpp_integrator))
       /\ (IsOp(lastOp', "attach_stream") /\ result' = "ok" =>
              /\ self' = [self EXCEPT !.stream = lastOp'.ref]
              /\ cpp_integrator' = cpp_integrator)
       /\ (IsOp(lastOp', "attach_collide") /\ result' = "ok" =>
              /\ self' = [self EXCEPT !.collide = lastOp'.ref]
              /\ cpp_integrator' = cpp_integrator)
       /\ (IsOp(lastOp', "construct") /\ result' = "ok" =>
              /\ self'.stream \in {"StreamingMethod", "StreamingMethodGPU"}
              /\ NativeStrategies(cpp_integrator') = <<<<>>, None, None>>)
       /\ (IsOp(lastOp', "construct") /\ result' # "ok" =>
              NativeStrategies(cpp_integrator') = NativeStrategies(cpp_integrator))
       /\ (IsOp(lastOp', "update_methods") /\ result' = "ok" =>
              /\ self' = self
              /\ cpp_integrator'.stream = self.stream
              /\ cpp_integrator'.collide = self.collide)]_vars

\* the native integrator holds a superseded collision method and the default
\* streaming method, while the slots hold the ones attached since
C15_Witness ==
    /\ self.state = "Active"
    /\ IsOp(lastOp, "attach_collide") /\ lastOp.ref = "c2" /\ result = "ok"
    /\ self.collide = "c2" /\ cpp_integrator.collide = "c1"
    /\ self.stream = "s1" /\ cpp_integrator.stream = "StreamingMethodGPU"

\* straight after the constructor the native integrator holds no strategy
C15_WitnessFresh ==
    /\ IsOp(lastOp, "construct") /\ result = "ok"
    /\ self.stream = "StreamingMethod" /\ cpp_integrator.stream = None

\* C16: whenever the controller is active, whatever set_params calls
\* succeeded or failed before, the time step it records is the native
\* integrator's and the mode _aniso_modes gives for the aniso it records
\* (Automatic for None) is the native integrator's.
C16_ControllerMatchesEngineParams ==
    self.state = "Active" =>
        /\ self.dt = cpp_integrator.deltaT
        /\ Recognized(self.aniso)
        /\ aniso_modes[self.aniso] = cpp_integrator.anisoMode

C16_Witness ==
    /\ self.state = "Active"
    /\ IsOp(lastOp, "set_params") /\ result = "InvalidArgument"
    /\ lastOp.dt = Dt(2) /\ lastOp.aniso = "bogus"
    /\ self.dt = Dt(2) /\ cpp_integrator.deltaT = Dt(2)
    /\ self.aniso = "True" /\ cpp_integrator.anisoMode = "Anisotropic"

====
